---- MODULE Spec2Model ----
(***************************************************************************)
(* Journal generator: the length-adherence pipeline of                     *)
(* JournalGenerator.generate_entry (src/src/generator.py) and the text     *)
(* helpers it uses (src/src/utils.py).                                     *)
(*                                                                         *)
(* A text is a sequence of characters.  Four characters stand for the      *)
(* character classes the code distinguishes: "a" a letter, "," a comma,    *)
(* "." a period, " " whitespace.                                           *)
(***************************************************************************)
EXTENDS Integers, Sequences, FiniteSets, TLC

VARIABLES call, result, exporter, disk, saved, main

vars == <<call, result, exporter, disk, saved, main>>

(***************************** bounds ***************************************)
\* longest text enumerated character by character
MaxLen == 5
\* longest repeated text ("a a a ...") in words; 16 words exceed 1.5 * 10
MaxRepeat == 16
\* largest target_word_count; 14 is the first target whose computed token
\* budget exceeds the minimum of 50
MaxTarget == 14
\* largest max_overshoot_words handed to smart_truncate_text directly
MaxOvershoot == 2
\* largest actual word count handed to check_word_count_adherence directly
MaxActual == 24
\* largest max_new_tokens override
MaxOverride == 2
\* parts of the first candidate of a response
MaxParts == 2
\* rows of the DataFrame
MaxRows == 2
\* characters of a tone name
MaxTagLen == 2
\* example entries of a prompt
MaxExamples == 2
\* longest example entry enumerated character by character
MaxExampleLen == 1
\* longest run of one quote character in an example entry
MaxQuoteRun == 5
\* calls of save_entry in one run of the exporter
MaxSaves == 3
\* num_days and entries_per_day of a batch
MaxDays == 2
MaxEntries == 2

(************************* program constants ********************************)
\* tolerance_percentage: float = 0.50, in whole percent
DefaultTolerancePct == 50
\* max(50, ...) of the token budget
MinOutputTokens == 50
\* ... + 30 of the token budget
TokenBuffer == 30
\* int(avg_word_count*0.10), in whole percent
OvershootPct == 10

(******************************* texts **************************************)
Alphabet == {"a", ",", ".", " "}

IsSpace(c) == c = " "

\* every text of at most n characters
TextsUpTo(n) == UNION {[1..k -> Alphabet] : k \in 0..n}

RECURSIVE Repeat(_, _)
Repeat(unit, n) == IF n = 0 THEN <<>> ELSE unit \o Repeat(unit, n - 1)

\* word units of the long texts: "a ", "a, ", "a. "
Units == {<<"a", " ">>, <<"a", ",", " ">>, <<"a", ".", " ">>}

LongTexts == {Repeat(u, n) : u \in Units, n \in 1..MaxRepeat}

Texts == TextsUpTo(MaxLen) \cup LongTexts

Targets == 0..MaxTarget

Tolerances == {10, 20, DefaultTolerancePct}

Overrides == 0..MaxOverride

(***************************** str methods **********************************)
RECURSIVE lstrip(_)
lstrip(s) == IF s = <<>> \/ ~IsSpace(Head(s)) THEN s ELSE lstrip(Tail(s))

RECURSIVE rstrip(_)
rstrip(s) ==
  IF s = <<>> \/ ~IsSpace(s[Len(s)]) THEN s ELSE rstrip(SubSeq(s, 1, Len(s) - 1))

\* str.strip(): leading and trailing whitespace removed
strip(s) == rstrip(lstrip(s))

RECURSIVE SplitAcc(_, _, _)
SplitAcc(s, cur, acc) ==
  IF s = <<>> THEN (IF cur = <<>> THEN acc ELSE Append(acc, cur))
  ELSE IF IsSpace(Head(s))
       THEN SplitAcc(Tail(s), <<>>, IF cur = <<>> THEN acc ELSE Append(acc, cur))
       ELSE SplitAcc(Tail(s), Append(cur, Head(s)), acc)

\* str.split(): the maximal runs of non-whitespace characters
split(s) == SplitAcc(s, <<>>, <<>>)

RECURSIVE join(_)
\* " ".join(words)
join(words) ==
  IF words = <<>> THEN <<>>
  ELSE IF Len(words) = 1 THEN Head(words)
  ELSE Head(words) \o <<" ">> \o join(Tail(words))

\* words[:n] for n >= 0
Take(words, n) == SubSeq(words, 1, IF n < Len(words) THEN n ELSE Len(words))

Max(a, b) == IF a >= b THEN a ELSE b

(********************** nltk.tokenize.word_tokenize *************************)
(* word_tokenize splits the text into sentences (Punkt) and each sentence  *)
(* into tokens (the Treebank rules).  On this alphabet, with every letter  *)
(* run an ordinary word (no abbreviation known to Punkt):                  *)
(*  - whitespace separates tokens;                                         *)
(*  - a run of two or more periods is one token of its own;                *)
(*  - a single period is split off only where it ends a sentence, that is  *)
(*    when whitespace or the end of the text follows it; before a letter   *)
(*    or a comma it stays in its token ("a.a", and "a." in "a.,");         *)
(*  - a comma is split off from what precedes and follows it; the rule     *)
(*    matches the comma together with the next character, so the second    *)
(*    comma of ",," is not matched again and stays glued to what follows   *)
(*    it (",,a" gives "," and ",a").                                       *)
(***************************************************************************)
Flush(acc, cur) == IF cur = <<>> THEN acc ELSE Append(acc, cur)

RECURSIVE DotRunEnd(_, _)
\* the last index of the run of periods that starts at i
DotRunEnd(c, i) ==
  IF i < Len(c) /\ c[i + 1] = "." THEN DotRunEnd(c, i + 1) ELSE i

RECURSIVE TokChunk(_, _, _, _, _)
\* the tokens of one whitespace-free chunk c, scanned from index i; cur is
\* the token being built, eaten says that c[i] was matched as the character
\* after a comma
TokChunk(c, i, cur, acc, eaten) ==
  IF i > Len(c) THEN Flush(acc, cur)
  ELSE IF c[i] = "," /\ ~eaten
       THEN TokChunk(c, i + 1, <<>>, Append(Flush(acc, cur), <<",">>), TRUE)
  ELSE IF c[i] = ","
       THEN TokChunk(c, i + 1, <<",">>, Flush(acc, cur), FALSE)
  ELSE IF c[i] = "."
       THEN LET j == DotRunEnd(c, i) IN
            IF j > i
            THEN TokChunk(c, j + 1, <<>>,
                          Append(Flush(acc, cur), SubSeq(c, i, j)), FALSE)
            ELSE IF i = Len(c)
            THEN Append(Flush(acc, cur), <<".">>)
            ELSE TokChunk(c, i + 1, Append(cur, "."), acc, FALSE)
  ELSE TokChunk(c, i + 1, Append(cur, c[i]), acc, FALSE)

RECURSIVE TokChunks(_)
TokChunks(chunks) ==
  IF chunks = <<>> THEN <<>>
  ELSE TokChunk(Head(chunks), 1, <<>>, <<>>, FALSE) \o TokChunks(Tail(chunks))

word_tokenize(text) == TokChunks(split(text))

(******************************* utils.py ***********************************)
\* text.strip()
clean_generated_text(text) == strip(text)

\* variant: counts linguistic tokens, as the docstring of count_words says
count_words_tokens(text) == Len(word_tokenize(text))

\* 0 for the empty text, else len(text.split())
count_words(text) == IF text = <<>> THEN 0 ELSE Len(split(text))

\* variant: both bounds of the band exclusive
check_word_count_adherence_exclusive(text_word_count, target_word_count, tolerance_pct) ==
  IF target_word_count = 0
  THEN [is_adherent |-> text_word_count = 0, deviation |-> [num |-> 0, den |-> 1]]
  ELSE [is_adherent |->
          /\ target_word_count * (100 - tolerance_pct) < 100 * text_word_count
          /\ 100 * text_word_count < target_word_count * (100 + tolerance_pct),
        deviation |-> [num |-> text_word_count - target_word_count,
                       den |-> target_word_count]]

\* variant: a zero target accepts every count
check_word_count_adherence_zero_ok(text_word_count, target_word_count, tolerance_pct) ==
  IF target_word_count = 0
  THEN [is_adherent |-> TRUE, deviation |-> [num |-> 0, den |-> 1]]
  ELSE [is_adherent |->
          /\ target_word_count * (100 - tolerance_pct) <= 100 * text_word_count
          /\ 100 * text_word_count <= target_word_count * (100 + tolerance_pct),
        deviation |-> [num |-> text_word_count - target_word_count,
                       den |-> target_word_count]]

\* tolerance in whole percent; the deviation is the exact fraction num/den
\* (the code's float (text_word_count - target_word_count) / target_word_count)
check_word_count_adherence(text_word_count, target_word_count, tolerance_pct) ==
  IF target_word_count = 0
  THEN [is_adherent |-> text_word_count = 0, deviation |-> [num |-> 0, den |-> 1]]
  ELSE [is_adherent |->
          /\ target_word_count * (100 - tolerance_pct) <= 100 * text_word_count
          /\ 100 * text_word_count <= target_word_count * (100 + tolerance_pct),
        deviation |-> [num |-> text_word_count - target_word_count,
                       den |-> target_word_count]]

\* variant: a text of exactly target + overshoot tokens is cut too
smart_truncate_text_strict(text, target_word_count, max_overshoot_words) ==
  LET words == word_tokenize(text)
  IN  IF Len(words) < target_word_count + max_overshoot_words
      THEN text
      ELSE strip(join(Take(words, target_word_count)))

\* variant: cuts to target + overshoot tokens
smart_truncate_text_keep_overshoot(text, target_word_count, max_overshoot_words) ==
  LET words == word_tokenize(text)
  IN  IF Len(words) <= target_word_count + max_overshoot_words
      THEN text
      ELSE strip(join(Take(words, target_word_count + max_overshoot_words)))

smart_truncate_text(text, target_word_count, max_overshoot_words) ==
  LET words == word_tokenize(text)
      current_word_count == Len(words)
  IN  IF current_word_count <= target_word_count + max_overshoot_words
      THEN text
      ELSE strip(join(Take(words, target_word_count)))

(***************************** generator.py *********************************)
\* the responses of model.generate_content, as generate_entry reads them.
\* "raise": an exception is raised by the call itself, by reading
\* response.parts, or by reading response.text; "direct": response.parts is
\* truthy and response.text is the text; "candidate": response.parts is falsy
\* and the first candidate's content parts carry the text fragments; "empty":
\* neither, with or without a block reason in prompt_feedback.  The two
\* accessors are views of the same parts, so a response that carries both
\* carries the same text in both and is the "direct" case.
RaisePoints == {"call", "parts", "text"}

FragmentTexts == TextsUpTo(1)

CandidateParts == UNION {[1..k -> FragmentTexts] : k \in 1..MaxParts}

Responses ==
  {[kind |-> "raise", at |-> a] : a \in RaisePoints}
  \cup {[kind |-> "direct", text |-> t] : t \in Texts}
  \cup {[kind |-> "candidate", parts |-> ps] : ps \in CandidateParts}
  \cup {[kind |-> "empty", block_reason |-> b] : b \in BOOLEAN}

\* variant: no minimum of 50
calculated_max_output_tokens_no_floor(avg_word_count, max_new_tokens) ==
  IF max_new_tokens = 0
  THEN (avg_word_count * 3) \div 2 + TokenBuffer
  ELSE max_new_tokens

\* max_output_tokens of the generation config
calculated_max_output_tokens(avg_word_count, max_new_tokens) ==
  IF max_new_tokens = 0
  THEN Max(MinOutputTokens, (avg_word_count * 3) \div 2 + TokenBuffer)
  ELSE max_new_tokens

\* variant: the default max_overshoot_words of smart_truncate_text
max_overshoot_default(avg_word_count) == 30

\* variant: an allowance of the whole target
max_overshoot_whole(avg_word_count) == avg_word_count

\* int(avg_word_count*0.10)
max_overshoot(avg_word_count) == (avg_word_count * OvershootPct) \div 100

\* variant: every text outside the band is handed to truncation
too_long_always(current_word_count, avg_word_count) == TRUE

\* the test "current_word_count > avg_word_count" of the non-adherent branch
too_long(current_word_count, avg_word_count) ==
  current_word_count > avg_word_count

\* the adherence step of generate_entry on the raw text of the response:
\* the final text and the calls made to smart_truncate_text
adhere(generated_text_raw, avg_word_count) ==
  LET cleaned_text == clean_generated_text(generated_text_raw)
      current_word_count == count_words(cleaned_text)
      verdict == check_word_count_adherence(current_word_count, avg_word_count,
                                            DefaultTolerancePct)
      truncated == smart_truncate_text(cleaned_text, avg_word_count,
                                       max_overshoot(avg_word_count))
      cut == ~verdict.is_adherent /\ too_long(current_word_count, avg_word_count)
  IN  [final_text |-> IF cut THEN truncated ELSE cleaned_text,
       current_word_count |-> current_word_count,
       is_adherent |-> verdict.is_adherent,
       deviation |-> verdict.deviation,
       truncate_calls |->
         IF cut
         THEN <<[text |-> cleaned_text, target_word_count |-> avg_word_count,
                 max_overshoot_words |-> max_overshoot(avg_word_count),
                 returned |-> truncated]>>
         ELSE <<>>]

\* variant: only the first fragment of the candidate is read
candidate_text_first(parts) == parts[1]

\* "".join(part.text for part in response.candidates[0].content.parts)
RECURSIVE candidate_text(_)
candidate_text(parts) ==
  IF parts = <<>> THEN <<>> ELSE Head(parts) \o candidate_text(Tail(parts))

\* variant: the try block ends after the call of generate_content
except_Exception_call_only(at) == at = "call"

\* the clause "except Exception" around the call and the reading of the
\* response: the exceptions raised at the point "at" that it catches
except_Exception(at) == TRUE

\* variant: a raising call is made a second time
generate_content_calls_retry(response) ==
  IF response.kind = "raise" /\ response.at = "call" THEN 2 ELSE 1

\* the calls of model.generate_content made by one generate_entry
generate_content_calls(response) == 1

\* generate_entry: the value returned, whether an exception reached the
\* caller, the token budget sent, the number of calls of generate_content,
\* the text read from the response, and what the adherence step did
generate_entry(avg_word_count, max_new_tokens, response) ==
  LET budget == calculated_max_output_tokens(avg_word_count, max_new_tokens)
      failed == [returned |-> <<>>, max_output_tokens |-> budget,
                 service_calls |-> generate_content_calls(response),
                 has_text |-> FALSE,
                 raised |-> response.kind = "raise"
                            /\ ~except_Exception(response.at),
                 warned_block |-> response.kind = "empty" /\ response.block_reason]
      generated_text_raw == IF response.kind = "direct"
                            THEN response.text
                            ELSE candidate_text(response.parts)
  IN  IF response.kind \in {"raise", "empty"} THEN failed
      ELSE LET a == adhere(generated_text_raw, avg_word_count)
           IN  [returned |-> a.final_text, max_output_tokens |-> budget,
                service_calls |-> generate_content_calls(response),
                has_text |-> TRUE, raised |-> FALSE, warned_block |-> FALSE,
                generated_text_raw |-> generated_text_raw,
                current_word_count |-> a.current_word_count,
                is_adherent |-> a.is_adherent, deviation |-> a.deviation,
                truncate_calls |-> a.truncate_calls]

(********************* generator.py: the prompt *****************************)
\* the characters of an example entry: a letter and the two quote characters
ExampleAlphabet == {"x", "\"", "'"}

\* runs of one quote character, three and more
QuoteRuns == {Repeat(<<q>>, n) : q \in {"\"", "'"}, n \in 3..MaxQuoteRun}

\* the texts of example_entries
ExampleTexts ==
  UNION {[1..k -> ExampleAlphabet] : k \in 0..MaxExampleLen} \cup QuoteRuns

\* example_entries, when it is a list
ExampleLists == UNION {[1..k -> ExampleTexts] : k \in 0..MaxExamples}

\* target_emotion and avg_word_count of the prompts composed
PromptTags == {<<"a">>, <<"A", "b">>}

PromptWordCounts == {1, 10, 100}

\* the fixed wording of the prompt, each piece one element of the text
ToneInstruction ==
  "Write a journal entry that very much focuses on the tone/style preset: "

LengthInstruction == "The entry must be approximately "

WordsLong == " words long."

BodyOnlyInstruction ==
  "Generate only the journal entry text itself, without any introductory phrases like 'Here is a journal entry:' or similar. Do not include any titles or extra formatting beyond standard paragraph breaks if needed."

ExamplesHeader == "\nHere are some examples of style and tone to guide you:"

ExampleLabel == "\nExample "

ClosingWithExamples ==
  "\nBased on these examples, and keeping a similar style and tone, write the new journal entry:"

ClosingDirect == "\nWrite the new journal entry now, following all rules above:"

\* str(n) for n >= 0, digit by digit
Digits == <<"0", "1", "2", "3", "4", "5", "6", "7", "8", "9">>

RECURSIVE str(_)
str(n) ==
  IF n < 10 THEN <<Digits[n + 1]>>
  ELSE str(n \div 10) \o <<Digits[(n % 10) + 1]>>

\* s.replace(q q q, q) for a quote character q: from the left, without
\* overlap
RECURSIVE replace_triple(_, _)
replace_triple(s, q) ==
  IF s = <<>> THEN <<>>
  ELSE IF Len(s) >= 3 /\ s[1] = q /\ s[2] = q /\ s[3] = q
       THEN <<q>> \o replace_triple(SubSeq(s, 4, Len(s)), q)
       ELSE <<Head(s)>> \o replace_triple(Tail(s), q)

\* temp_ex
temp_ex(ex) == replace_triple(replace_triple(ex, "\""), "'")

\* variant: the examples are numbered from 0
example_number_from_zero(i) == i

\* the number in the label of the example at index i of enumerate
example_number(i) == i + 1

\* the parts appended for the examples at indexes i and after
RECURSIVE example_parts(_, _)
example_parts(example_entries, i) ==
  IF i >= Len(example_entries) THEN <<>>
  ELSE <<(<<ExampleLabel>> \o str(example_number(i)) \o <<": \"">>
          \o temp_ex(example_entries[i + 1]) \o <<"\"">>)>>
       \o example_parts(example_entries, i + 1)

\* _construct_prompt_text; example_entries is <<>> when it is None
construct_prompt_text(target_emotion, avg_word_count, example_entries) ==
  LET head == << <<ToneInstruction>> \o target_emotion \o <<".">>,
                 <<LengthInstruction>> \o str(avg_word_count) \o <<WordsLong>>,
                 <<BodyOnlyInstruction>> >>
      prompt_parts ==
        IF example_entries # <<>>
        THEN head \o << <<ExamplesHeader>> >>
             \o example_parts(example_entries, 0)
             \o << <<ClosingWithExamples>> >>
        ELSE head \o << <<ClosingDirect>> >>
  IN  join(prompt_parts)

(***************************** data_loader.py *******************************)
\* the characters of a tone/emotion name, in both cases
TagAlphabet == {"a", "A", "b"}

\* target_emotion
Tags == UNION {[1..k -> TagAlphabet] : k \in 1..MaxTagLen}

\* str.lower, character by character
LowerChar == [c \in TagAlphabet |-> IF c = "A" THEN "a" ELSE c]

\* variant: the name is used as it is written
lower_as_written(s) == s

lower(s) == [i \in 1..Len(s) |-> LowerChar[s[i]]]

\* f"Answer.f1.{target_emotion.lower()}.raw"
target_emotion_col_name(target_emotion) ==
  <<"Answer.f1.">> \o lower(target_emotion) \o <<".raw">>

\* the texts of the 'Answer' column
AnswerTexts == {<<"x">>, <<"x", "x">>}

\* the names a label column of the frame can have; the second is not the
\* lower-case form of any name
LabelColumns ==
  {<<"Answer.f1.", "a", "b", ".raw">>, <<"Answer.f1.", "A", "b", ".raw">>,
   <<"Answer.f1.", "a", ".raw">>}

\* the cells of a column, by dtype, as they print
Cells ==
  [bool |-> {"True", "False"}, int64 |-> {"0", "1", "2"},
   object |-> {"yes", "no"}]

\* the DataFrame handed to get_examples_for_prompt: the 'Answer' column and
\* one label column with its name, its dtype and its cells, row by row
DataFrames ==
  UNION {[Answer : [1..n -> AnswerTexts], column : LabelColumns,
          dtype : {d}, values : [1..n -> Cells[d]]]
         : n \in 0..MaxRows, d \in {"bool", "int64", "object"}}

\* num_examples
Counts == (-1)..(MaxRows + 1)

\* variant: only a negative num_examples returns at once
nothing_requested_negative(num_examples) == num_examples < 0

\* the test "num_examples <= 0"
nothing_requested(num_examples) == num_examples <= 0

\* pd.api.types.is_bool_dtype
is_bool_dtype(dtype) == dtype = "bool"

\* variant: every column that is not boolean is converted
is_numeric_dtype_any(dtype) == TRUE

\* pd.api.types.is_numeric_dtype, asked of a column that is not boolean
is_numeric_dtype(dtype) == dtype = "int64"

\* Series.astype(bool), cell by cell: zero and the empty string are False
astype_bool(values) ==
  [i \in 1..Len(values) |-> IF values[i] \in {"0", ""} THEN "False" ELSE "True"]

\* variant: no row is filtered out
filtered_rows_all(values) == [i \in 1..Len(values) |-> i]

\* df[df[col] == True]: the rows kept, in the order of the frame
RECURSIVE filtered_rows(_)
filtered_rows(values) ==
  IF values = <<>> THEN <<>>
  ELSE LET n == Len(values)
           before == filtered_rows(SubSeq(values, 1, n - 1))
       IN  IF values[n] = "True" THEN Append(before, n) ELSE before

\* variant: random.choices, which draws with replacement
random_sample_with_replacement(n, k) == [1..k -> 1..n]

\* random.sample(population, k) for a population of n: the positions it can
\* draw, in the order drawn
random_sample(n, k) ==
  {p \in [1..k -> 1..n] : \A i, j \in 1..k : p[i] = p[j] => i = j}

\* get_examples_for_prompt: the outcomes it can have.  returned is the list
\* returned, rows are the rows of the frame it was taken from, df is the
\* caller's frame after the call, df_read tells whether the frame was looked
\* at
get_examples_for_prompt(df, target_emotion, num_examples) ==
  LET col == target_emotion_col_name(target_emotion)
      nothing(frame, read) ==
        {[returned |-> <<>>, rows |-> <<>>, df |-> frame, df_read |-> read,
          raised |-> FALSE]}
      converted == IF is_bool_dtype(df.dtype) THEN df
                   ELSE [df EXCEPT !.dtype = "bool",
                                   !.values = astype_bool(df.values)]
      kept == filtered_rows(converted.values)
      taken(rows) ==
        [returned |-> [i \in 1..Len(rows) |-> converted.Answer[rows[i]]],
         rows |-> rows, df |-> converted, df_read |-> TRUE, raised |-> FALSE]
  IN  IF nothing_requested(num_examples) THEN nothing(df, FALSE)
      ELSE IF col # df.column THEN nothing(df, TRUE)
      ELSE IF ~is_bool_dtype(df.dtype) /\ ~is_numeric_dtype(df.dtype)
           THEN nothing(df, TRUE)
      ELSE IF kept = <<>> THEN nothing(converted, TRUE)
      ELSE IF Len(kept) < num_examples THEN {taken(kept)}
      ELSE {taken([i \in 1..num_examples |-> kept[p[i]]])
            : p \in random_sample(Len(kept), num_examples)}

(******************************* exporter.py ********************************)
\* date_str, output_dir and the entry texts handed to save_entry
Dates == {"20231027"}

OutputDir == "generated_entries"

EntryTexts == {<<>>, <<"a">>}

\* open(filepath, 'w') and f.write: both succeed; open raises IOError; write
\* raises IOError after open has created or emptied the file
WriteOutcomes == {"ok", "open fails", "write fails"}

\* _save_counter: it succeeds; makedirs or open raises before the file is
\* touched; json.dump raises after open has emptied the file
PersistOutcomes == {"ok", "untouched", "truncated"}

\* utils.construct_filename(unique_id_str, prefix): f"{prefix}_{unique_id_str}.txt"
construct_filename(unique_id_str, prefix) ==
  prefix \o <<"_">> \o unique_id_str \o <<".txt">>

\* os.path.join(self.output_dir, filename)
filepath(output_dir, filename) == <<output_dir, "/">> \o filename

\* _load_counter: the counter read from the state file, 0 when the file is
\* missing, cannot be read, or cannot be parsed
load_counter(counter_file, read_ok) ==
  IF counter_file.state = "missing" THEN 0
  ELSE IF ~read_ok \/ counter_file.state = "corrupt" THEN 0
  ELSE counter_file.global_counter

\* _save_counter: the state file afterwards
save_counter(counter_file, global_counter, persist) ==
  IF persist = "ok" THEN [state |-> "ok", global_counter |-> global_counter]
  ELSE IF persist = "truncated" THEN [state |-> "corrupt", global_counter |-> 0]
  ELSE counter_file

\* the files of the output directory after path is opened for writing and
\* content written
written(files, path, content) ==
  {f \in files : f.path # path} \cup {[path |-> path, content |-> content]}

\* variant: the counter is incremented before the text is looked at
empty_entry_never(entry_text) == FALSE

\* the test "not entry_text"
empty_entry(entry_text) == entry_text = <<>>

\* variant: the counter is incremented only for an entry that was written
counter_after_attempt_on_success(global_counter, write) ==
  IF write = "ok" THEN global_counter + 1 ELSE global_counter

\* self.global_counter += 1, made before the write is attempted
counter_after_attempt(global_counter, write) == global_counter + 1

\* variant: a failed write is attempted again
write_attempts_retry(write) == IF write = "ok" THEN 1 ELSE 2

\* the calls of open(filepath, 'w') made by one save_entry
write_attempts(write) == 1

\* save_entry: the exporter and the disk afterwards, the value returned
\* (a path, or None), and the calls made
save_entry(self, on_disk, entry_text, date_str, write, persist) ==
  IF empty_entry(entry_text)
  THEN [exporter |-> self, disk |-> on_disk, is_none |-> TRUE, path |-> <<>>,
        raised |-> FALSE, write_attempts |-> 0, counter_saves |-> 0]
  ELSE LET global_counter == counter_after_attempt(self.global_counter, write)
           filename == construct_filename(<<date_str>>, str(global_counter))
           path == filepath(OutputDir, filename)
           after == [self EXCEPT !.global_counter = global_counter]
       IN  IF write = "ok"
           THEN [exporter |-> after,
                 disk |-> [counter_file |->
                             save_counter(on_disk.counter_file, global_counter,
                                          persist),
                           files |-> written(on_disk.files, path, entry_text)],
                 is_none |-> FALSE, path |-> path, raised |-> FALSE,
                 write_attempts |-> write_attempts(write), counter_saves |-> 1]
           ELSE [exporter |-> after,
                 disk |-> IF write = "write fails"
                          THEN [on_disk EXCEPT
                                  !.files = written(on_disk.files, path, <<>>)]
                          ELSE on_disk,
                 is_none |-> TRUE, path |-> <<>>, raised |-> FALSE,
                 write_attempts |-> write_attempts(write), counter_saves |-> 0]

\* JournalExporter.__init__ once os.makedirs has succeeded
JournalExporter(on_disk, read_ok) ==
  [alive |-> TRUE, global_counter |-> load_counter(on_disk.counter_file, read_ok)]

(********************************* main.py **********************************)
\* --num_examples_prompt and --avg_word_count of the batches run
ExamplePromptCounts == {0, 2}

\* --num_days and --entries_per_day: any integer is accepted
DayCounts == (-1)..MaxDays

EntryCounts == (-1)..MaxEntries

MainAvgWordCount == 2

\* what get_examples_for_prompt gives main
SampledExamples == {<<>>, <<<<"x">>>>, <<<<"x">>, <<"x", "x">>>>}

\* the responses the model gives in a batch: the call raises; nothing
\* usable; an empty text, a text inside the band, a text above it
MainResponses ==
  {[kind |-> "raise", at |-> "call"], [kind |-> "empty", block_reason |-> FALSE]}
  \cup {[kind |-> "direct", text |-> t]
        : t \in {<<>>, <<"a", " ", "a">>, Repeat(<<"a", " ">>, 4)}}

\* the outcomes of the entry write and of the state file write in a batch
MainWriteOutcomes == {"ok", "open fails"}

MainPersistOutcomes == {"ok"}

StartDate == "20231027"

\* (current_date_obj + timedelta(days=day_num)).strftime("%Y%m%d")
current_date_str(day_num) == StartDate \o "+" \o Digits[day_num + 1]

\* the test "args.num_examples_prompt > 0" before the data is loaded
load_wanted(num_examples_prompt) == num_examples_prompt > 0

\* variant: examples are fetched for every entry
examples_wanted_always(journal_df_loaded, num_examples_prompt) == TRUE

\* the test "journal_df is not None and args.num_examples_prompt > 0"
examples_wanted(journal_df_loaded, num_examples_prompt) ==
  journal_df_loaded /\ num_examples_prompt > 0

\* variant: range(1, args.entries_per_day)
more_entries_one_short(entry_num_in_day, entries_per_day) ==
  entry_num_in_day < entries_per_day

\* range(1, args.entries_per_day + 1)
more_entries(entry_num_in_day, entries_per_day) ==
  entry_num_in_day <= entries_per_day

\* variant: every text returned is handed to the exporter
store_wanted_always(generated_text) == TRUE

\* the test "if generated_text"
store_wanted(generated_text) == generated_text # <<>>

\* variant: every store attempt is counted
total_after_store_any(total_entries_generated, is_none) ==
  total_entries_generated + 1

\* "if saved_file: total_entries_generated += 1"
total_after_store(total_entries_generated, is_none) ==
  IF is_none THEN total_entries_generated ELSE total_entries_generated + 1

(******************************* actions ************************************)
\* no call in progress
Idle == call = [op |-> "none"] /\ result = [returned |-> <<>>]

\* no exporter has been constructed, nothing is on disk, main has not started
NoExporter == [alive |-> FALSE, global_counter |-> 0]

NoCounterFile == [state |-> "missing", global_counter |-> 0]

EmptyDisk == [counter_file |-> NoCounterFile, files |-> {}]

NotStarted == [pc |-> "not started"]

Init ==
  /\ Idle
  /\ exporter = NoExporter
  /\ disk = EmptyDisk
  /\ saved = {}
  /\ main = NotStarted

CleanGeneratedText ==
  /\ call.op = "none"
  /\ \E text \in Texts :
    /\ call' = [op |-> "clean_generated_text", text |-> text]
    /\ result' = [returned |-> clean_generated_text(text)]
  /\ UNCHANGED <<exporter, disk, saved, main>>

CountWords ==
  /\ call.op = "none"
  /\ \E text \in Texts :
    /\ call' = [op |-> "count_words", text |-> text]
    /\ result' = [returned |-> count_words(text)]
  /\ UNCHANGED <<exporter, disk, saved, main>>

CheckWordCountAdherence ==
  /\ call.op = "none"
  /\ \E actual \in 0..MaxActual, target \in Targets, tol \in Tolerances :
    /\ call' = [op |-> "check_word_count_adherence", text_word_count |-> actual,
                target_word_count |-> target, tolerance_pct |-> tol]
    /\ result' = check_word_count_adherence(actual, target, tol)
  /\ UNCHANGED <<exporter, disk, saved, main>>

SmartTruncateText ==
  /\ call.op = "none"
  /\ \E text \in Texts, target \in Targets, overshoot \in 0..MaxOvershoot :
    /\ call' = [op |-> "smart_truncate_text", text |-> text,
                target_word_count |-> target, max_overshoot_words |-> overshoot]
    /\ result' = [returned |-> smart_truncate_text(text, target, overshoot)]
  /\ UNCHANGED <<exporter, disk, saved, main>>

GenerateEntry ==
  /\ call.op = "none"
  /\ \E target \in Targets, override \in Overrides, response \in Responses :
    /\ call' = [op |-> "generate_entry", avg_word_count |-> target,
                max_new_tokens |-> override, response |-> response]
    /\ result' = generate_entry(target, override, response)
  /\ UNCHANGED <<exporter, disk, saved, main>>

ConstructPromptText ==
  /\ call.op = "none"
  /\ \E tag \in PromptTags, target \in PromptWordCounts,
        examples \in ExampleLists, is_none \in BOOLEAN :
       /\ is_none => examples = <<>>
       /\ call' = [op |-> "construct_prompt_text", target_emotion |-> tag,
                   avg_word_count |-> target, example_entries |-> examples,
                   example_entries_is_none |-> is_none]
       /\ result' = [returned |-> construct_prompt_text(tag, target, examples)]
  /\ UNCHANGED <<exporter, disk, saved, main>>

GetExamplesForPrompt ==
  /\ call.op = "none"
  /\ \E df \in DataFrames, tag \in Tags, num \in Counts :
       \E outcome \in get_examples_for_prompt(df, tag, num) :
         /\ call' = [op |-> "get_examples_for_prompt", df |-> df,
                     target_emotion |-> tag, num_examples |-> num]
         /\ result' = outcome
  /\ UNCHANGED <<exporter, disk, saved, main>>

\* the caller has taken the result; the next call can be made
Return ==
  /\ call.op # "none"
  /\ call' = [op |-> "none"]
  /\ result' = [returned |-> <<>>]
  /\ UNCHANGED <<exporter, disk, saved, main>>

Next ==
  \/ CleanGeneratedText
  \/ CountWords
  \/ CheckWordCountAdherence
  \/ SmartTruncateText
  \/ GenerateEntry
  \/ ConstructPromptText
  \/ GetExamplesForPrompt
  \/ Return

Spec == Init /\ [][Next]_vars

(************************** the exporter at work ****************************)
\* an exporter constructed where nothing has been saved yet
InitExporter ==
  /\ Idle
  /\ exporter = JournalExporter(EmptyDisk, TRUE)
  /\ disk = EmptyDisk
  /\ saved = {}
  /\ main = NotStarted

\* the process ends and a JournalExporter is constructed again; os.makedirs
\* can raise, and then there is no exporter
NewExporter ==
  /\ \E makedirs_ok, read_ok \in BOOLEAN :
       /\ call' = [op |-> "JournalExporter", makedirs_ok |-> makedirs_ok,
                   read_ok |-> read_ok]
       /\ exporter' = IF makedirs_ok THEN JournalExporter(disk, read_ok)
                      ELSE NoExporter
       /\ result' = [returned |-> <<>>, raised |-> ~makedirs_ok]
  /\ UNCHANGED <<disk, saved, main>>

SaveEntry ==
  /\ exporter.alive
  /\ exporter.global_counter < MaxSaves
  /\ \E entry_text \in EntryTexts, date_str \in Dates,
        write \in WriteOutcomes, persist \in PersistOutcomes :
       LET r == save_entry(exporter, disk, entry_text, date_str, write, persist)
       IN  /\ call' = [op |-> "save_entry", entry_text |-> entry_text,
                       date_str |-> date_str, write |-> write,
                       persist |-> persist]
           /\ result' = [returned |-> r.path, is_none |-> r.is_none,
                         raised |-> r.raised,
                         write_attempts |-> r.write_attempts,
                         counter_saves |-> r.counter_saves]
           /\ exporter' = r.exporter
           /\ disk' = r.disk
           /\ saved' = IF r.is_none THEN saved ELSE saved \cup {r.path}
  /\ UNCHANGED main

NextExporter ==
  \/ NewExporter
  \/ SaveEntry

SpecExporter == InitExporter /\ [][NextExporter]_vars

(****************************** main at work ********************************)
\* main has parsed its arguments.  The fields after generated_text count what
\* has happened so far: calls of load_and_preprocess_data,
\* get_examples_for_prompt, generate_entry and save_entry, entries begun,
\* entries stored, the entry the examples were fetched for, and the examples
\* handed to generate_entry
InitMain ==
  /\ Idle
  /\ exporter = NoExporter
  /\ disk = EmptyDisk
  /\ saved = {}
  /\ \E days \in DayCounts, entries \in EntryCounts,
        examples \in ExamplePromptCounts :
       main = [pc |-> "load data", num_days |-> days,
               entries_per_day |-> entries, num_examples_prompt |-> examples,
               journal_df_loaded |-> FALSE, day_num |-> 0,
               entry_num_in_day |-> 1, example_entries_for_prompt |-> <<>>,
               generated_text_raw |-> <<>>, generated_text |-> <<>>,
               total_entries_generated |-> 0,
               load_calls |-> 0, sampler_calls |-> 0, generate_calls |-> 0,
               save_calls |-> 0, entries_begun |-> 0, entries_stored |-> 0,
               sampled_for |-> 0, prompt_examples |-> <<>>]

\* lines 84-94: the data is loaded when examples are asked for; a failure
\* leaves journal_df None
MainLoadData ==
  /\ main.pc = "load data"
  /\ IF load_wanted(main.num_examples_prompt)
     THEN \E loaded \in BOOLEAN :
            main' = [main EXCEPT !.pc = "init modules",
                                 !.journal_df_loaded = loaded,
                                 !.load_calls = @ + 1]
     ELSE main' = [main EXCEPT !.pc = "init modules"]
  /\ UNCHANGED <<call, result, exporter, disk, saved>>

\* lines 96-108: JournalGenerator() and JournalExporter(), main returns when
\* either raises; then strptime(args.start_date), whose ValueError nothing
\* catches
MainInitModules ==
  /\ main.pc = "init modules"
  /\ \E generator_ok, makedirs_ok, read_ok, start_date_ok \in BOOLEAN :
       IF generator_ok /\ makedirs_ok
       THEN /\ exporter' = JournalExporter(disk, read_ok)
            /\ main' = [main EXCEPT
                          !.pc = IF start_date_ok THEN "loop" ELSE "raised"]
       ELSE /\ exporter' = exporter
            /\ main' = [main EXCEPT !.pc = "returned early"]
  /\ UNCHANGED <<call, result, disk, saved>>

\* lines 110 and 114: the two for loops; line 147 after the last day
MainLoop ==
  /\ main.pc = "loop"
  /\ main' =
       IF main.day_num >= main.num_days THEN [main EXCEPT !.pc = "done"]
       ELSE IF more_entries(main.entry_num_in_day, main.entries_per_day)
            THEN [main EXCEPT !.pc = "fetch examples",
                              !.entries_begun = @ + 1]
            ELSE [main EXCEPT !.day_num = @ + 1, !.entry_num_in_day = 1]
  /\ UNCHANGED <<call, result, exporter, disk, saved>>

\* lines 117-123
MainFetchExamples ==
  /\ main.pc = "fetch examples"
  /\ IF examples_wanted(main.journal_df_loaded, main.num_examples_prompt)
     THEN \E examples \in SampledExamples :
            main' = [main EXCEPT !.pc = "compose",
                                 !.example_entries_for_prompt = examples,
                                 !.sampler_calls = @ + 1,
                                 !.sampled_for = main.entries_begun]
     ELSE main' = [main EXCEPT !.pc = "compose",
                               !.example_entries_for_prompt = <<>>]
  /\ UNCHANGED <<call, result, exporter, disk, saved>>

\* line 126 and generator.py line 71: generate_entry is called and composes
\* the prompt
MainComposePrompt ==
  /\ main.pc = "compose"
  /\ main' = [main EXCEPT !.pc = "invoke",
                          !.generate_calls = @ + 1,
                          !.prompt_examples = main.example_entries_for_prompt]
  /\ UNCHANGED <<call, result, exporter, disk, saved>>

\* generator.py lines 103-132: the call of the model and the reading of the
\* response
MainInvokeModel ==
  /\ main.pc = "invoke"
  /\ \E response \in MainResponses :
       main' = IF response.kind \in {"raise", "empty"}
               THEN [main EXCEPT !.pc = "returned", !.generated_text = <<>>,
                                 !.generated_text_raw = <<>>]
               ELSE [main EXCEPT !.pc = "adherence",
                                 !.generated_text_raw = response.text]
  /\ UNCHANGED <<call, result, exporter, disk, saved>>

\* generator.py lines 136-154 without the call of smart_truncate_text
MainCheckAdherence ==
  /\ main.pc = "adherence"
  /\ LET a == adhere(main.generated_text_raw, MainAvgWordCount)
     IN  main' = IF a.truncate_calls # <<>>
                 THEN [main EXCEPT !.pc = "truncate"]
                 ELSE [main EXCEPT !.pc = "returned",
                                   !.generated_text = a.final_text]
  /\ UNCHANGED <<call, result, exporter, disk, saved>>

\* generator.py line 151
MainTruncate ==
  /\ main.pc = "truncate"
  /\ main' = [main EXCEPT
                !.pc = "returned",
                !.generated_text =
                  adhere(main.generated_text_raw, MainAvgWordCount).final_text]
  /\ UNCHANGED <<call, result, exporter, disk, saved>>

\* lines 135-143: the text returned is handed to save_entry
MainSaveEntry ==
  /\ main.pc = "returned"
  /\ store_wanted(main.generated_text)
  /\ \E write \in MainWriteOutcomes, persist \in MainPersistOutcomes :
       LET r == save_entry(exporter, disk, main.generated_text,
                           current_date_str(main.day_num), write, persist)
       IN  /\ exporter' = r.exporter
           /\ disk' = r.disk
           /\ saved' = IF r.is_none THEN saved ELSE saved \cup {r.path}
           /\ main' = [main EXCEPT
                         !.pc = "loop",
                         !.entry_num_in_day = @ + 1,
                         !.save_calls = @ + 1,
                         !.entries_stored = IF r.is_none THEN @ ELSE @ + 1,
                         !.total_entries_generated =
                           total_after_store(@, r.is_none)]
  /\ UNCHANGED <<call, result>>

\* lines 144-145: no text, the entry is skipped
MainSkipEntry ==
  /\ main.pc = "returned"
  /\ ~store_wanted(main.generated_text)
  /\ main' = [main EXCEPT !.pc = "loop", !.entry_num_in_day = @ + 1]
  /\ UNCHANGED <<call, result, exporter, disk, saved>>

NextMain ==
  \/ MainLoadData
  \/ MainInitModules
  \/ MainLoop
  \/ MainFetchExamples
  \/ MainComposePrompt
  \/ MainInvokeModel
  \/ MainCheckAdherence
  \/ MainTruncate
  \/ MainSaveEntry
  \/ MainSkipEntry

SpecMain == InitMain /\ [][NextMain]_vars

(************************ vocabulary of the properties **********************)
\* the number of whitespace-delimited words of s: the positions where a
\* maximal run of non-whitespace characters starts
RunCount(s) ==
  Cardinality({i \in 1..Len(s) : ~IsSpace(s[i]) /\ (i = 1 \/ IsSpace(s[i - 1]))})

\* t is s with only leading and trailing whitespace removed
IsTrimOf(t, s) ==
  \E i \in 1..(Len(s) + 1), j \in 0..Len(s) :
    /\ t = SubSeq(s, i, j)
    /\ \A k \in 1..Len(s) : (k < i \/ k > j) => IsSpace(s[k])
    /\ t # <<>> => ~IsSpace(t[1]) /\ ~IsSpace(t[Len(t)])

RECURSIVE SumLen(_)
SumLen(ws) == IF ws = <<>> THEN 0 ELSE Len(Head(ws)) + SumLen(Tail(ws))

\* r is the words ws, in order, with exactly one space between neighbours
IsSingleSpaceJoin(r, ws) ==
  /\ split(r) = ws
  /\ Len(r) = SumLen(ws) + (IF ws = <<>> THEN 0 ELSE Len(ws) - 1)

Abs(x) == IF x < 0 THEN -x ELSE x

\* generate_entry has returned after reading a text from the response
Generated == call.op = "generate_entry" /\ result.has_text

RawText == result.generated_text_raw

(****************************** properties **********************************)
\* C1: for every target > 0 and raw text whose cleaned whitespace-split word
\* count is strictly greater than 1.5 * target, the text generate_entry
\* returns has at most target + floor(target * 0.10) linguistic tokens.
C1_OverBandWithinAllowance ==
  (/\ Generated
   /\ call.avg_word_count > 0
   /\ 2 * RunCount(RawText) > 3 * call.avg_word_count)
  => Len(word_tokenize(result.returned))
       <= call.avg_word_count + (call.avg_word_count \div 10)

C3_NeverLengthensNorCutsUndershoot ==
  Generated =>
    /\ RunCount(result.returned) <= RunCount(RawText)
    /\ RunCount(RawText) < call.avg_word_count
         => /\ IsTrimOf(result.returned, RawText)
            /\ result.truncate_calls = <<>>

\* a text below the band that has more linguistic tokens than the target
C3_Witness ==
  /\ Generated
  /\ RunCount(RawText) > 0
  /\ 2 * RunCount(RawText) < call.avg_word_count
  /\ Len(word_tokenize(RawText)) > call.avg_word_count
  /\ ~result.is_adherent
  /\ result.truncate_calls = <<>>

\* C4: whenever the cleaned word count is strictly greater than 1.5 * target,
\* generate_entry calls the truncation function exactly once, with the
\* cleaned text, the target and max_overshoot_words = floor(target * 0.10),
\* and returns what that call returned.
C4_OverBandTruncatedOnce ==
  (Generated /\ 2 * RunCount(RawText) > 3 * call.avg_word_count)
  => /\ Len(result.truncate_calls) = 1
     /\ IsTrimOf(result.truncate_calls[1].text, RawText)
     /\ result.truncate_calls[1].target_word_count = call.avg_word_count
     /\ result.truncate_calls[1].max_overshoot_words = call.avg_word_count \div 10
     /\ result.returned = result.truncate_calls[1].returned

\* an over-long text for a target whose overshoot allowance is not zero
C4_Witness ==
  /\ Generated
  /\ 2 * RunCount(RawText) > 3 * call.avg_word_count
  /\ Len(result.truncate_calls) = 1
  /\ result.truncate_calls[1].max_overshoot_words > 0
  /\ result.returned # result.truncate_calls[1].text

\* C5: check_word_count_adherence(actual, target, tolerance) returns, for a
\* zero target, (actual = 0, 0) whatever the actual count; for a non-zero
\* target, is_adherent true exactly when target * (1 - tolerance) <= actual
\* <= target * (1 + tolerance), both bounds included, and the signed
\* deviation (actual - target) / target; the tolerance generate_entry gets
\* by default is 0.50.
C5_AdherenceVerdict ==
  /\ call.op = "check_word_count_adherence" =>
       LET actual == call.text_word_count
           target == call.target_word_count
       IN  IF target = 0
           THEN /\ result.is_adherent = (actual = 0)
                /\ result.deviation.num = 0
                /\ result.deviation.den # 0
           ELSE /\ result.is_adherent
                     = (100 * Abs(actual - target) <= call.tolerance_pct * target)
                /\ result.deviation.den # 0
                /\ result.deviation.num * target
                     = (actual - target) * result.deviation.den
  /\ Generated =>
       result.is_adherent
         = IF call.avg_word_count = 0
           THEN result.current_word_count = 0
           ELSE 2 * Abs(result.current_word_count - call.avg_word_count)
                  <= call.avg_word_count

\* a zero target with a non-zero actual count
C5_Witness ==
  /\ call.op = "check_word_count_adherence"
  /\ call.target_word_count = 0
  /\ call.text_word_count > 0
  /\ ~result.is_adherent
  /\ result.deviation.num = 0

\* C6: smart_truncate_text(text, target, max_overshoot) returns the text
\* unchanged, character for character, if its linguistic-token count is at
\* most target + max_overshoot; otherwise it returns exactly the first
\* target linguistic tokens, in their order, joined by single spaces.
C6_TruncateContract ==
  call.op = "smart_truncate_text" =>
    LET tokens == word_tokenize(call.text)
    IN  IF Len(tokens) <= call.target_word_count + call.max_overshoot_words
        THEN result.returned = call.text
        ELSE /\ call.target_word_count <= Len(tokens)
             /\ IsSingleSpaceJoin(result.returned,
                                  SubSeq(tokens, 1, call.target_word_count))

\* a cut that separates a punctuation token from its word, with an
\* allowance that is not zero
C6_Witness ==
  /\ call.op = "smart_truncate_text"
  /\ call.max_overshoot_words > 0
  /\ call.target_word_count >= 2
  /\ Len(word_tokenize(call.text))
       > call.target_word_count + call.max_overshoot_words
  /\ RunCount(call.text) < call.target_word_count
  /\ result.returned # call.text

\* C7: whenever smart_truncate_text cuts (linguistic-token count > target +
\* max_overshoot, target >= 0), count_words of what it returns is exactly
\* target_word_count.
C7_CutHasTargetWords ==
  (/\ call.op = "smart_truncate_text"
   /\ Len(word_tokenize(call.text))
        > call.target_word_count + call.max_overshoot_words)
  => count_words(result.returned) = call.target_word_count

\* a cut of a text of a single whitespace-delimited word to two tokens
C7_Witness ==
  /\ call.op = "smart_truncate_text"
  /\ Len(word_tokenize(call.text))
       > call.target_word_count + call.max_overshoot_words
  /\ call.max_overshoot_words > 0
  /\ call.target_word_count = 2
  /\ count_words(call.text) = 1

C9_CountWordsCountsPunctuation ==
  call.op = "count_words" => result.returned = Len(word_tokenize(call.text))

\* C10: the max-output-token budget sent to the model is
\* max(50, floor(target_word_count * 1.5) + 30) when no override is given
\* (max_new_tokens = 0) and the override itself when it is positive.
C10_TokenBudget ==
  call.op = "generate_entry" =>
    LET t == call.avg_word_count
        heuristic == t + (t \div 2) + 30
    IN  result.max_output_tokens
          = IF call.max_new_tokens > 0 THEN call.max_new_tokens
            ELSE IF heuristic > 50 THEN heuristic ELSE 50

\* a target large enough for the heuristic to exceed the minimum
C10_Witness ==
  /\ call.op = "generate_entry"
  /\ call.max_new_tokens = 0
  /\ result.max_output_tokens > 50

(******************** reading the response: C11 .. C13 **********************)
\* t is the fragments of parts, one after the other
IsConcatOf(t, parts) ==
  /\ Len(t) = SumLen(parts)
  /\ \A i \in 1..Len(parts) :
       SubSeq(t, SumLen(SubSeq(parts, 1, i - 1)) + 1,
                 SumLen(SubSeq(parts, 1, i))) = parts[i]

C12_ExceptionsBecomeFailure ==
  (call.op = "generate_entry" /\ call.response.kind = "raise")
  => /\ ~result.raised
     /\ result.returned = <<>>
     /\ ~result.has_text

C12_Witness ==
  /\ call.op = "generate_entry"
  /\ call.response.kind = "raise"
  /\ call.response.at = "text"
  /\ ~result.raised
  /\ result.returned = <<>>

\* C13: one generate_entry makes exactly one call of generate_content,
\* whether the call gives a text, an unusable response, or raises
C13_OneServiceCall ==
  call.op = "generate_entry" => result.service_calls = 1

C13_Witness ==
  /\ call.op = "generate_entry"
  /\ call.response.kind = "raise"
  /\ call.response.at = "call"
  /\ result.service_calls = 1
  /\ result.returned = <<>>

(********************* sampling examples: C14 .. C19 ************************)
\* get_examples_for_prompt has returned
Sampled == call.op = "get_examples_for_prompt"

\* c and d are the same letter, whatever their case
SameLetter(c, d) == c = d \/ {c, d} = {"a", "A"}

\* t is s written with other capitals
IsRecapitalisation(t, s) ==
  /\ Len(t) = Len(s)
  /\ \A i \in 1..Len(s) : SameLetter(t[i], s[i])

\* the frame has the label column of the tag
HasColumn == call.df.column = target_emotion_col_name(call.target_emotion)

\* the tag has a label column that is boolean or numeric
ValidTag == HasColumn /\ call.df.dtype \in {"bool", "int64"}

\* the rows of the frame whose label is set: True, or a number other than 0
MatchingRows ==
  {i \in 1..Len(call.df.values) : call.df.values[i] \in {"True", "1", "2"}}

\* the list returned is the Answer texts of the rows taken
ReturnsAnswersOfRows ==
  /\ Len(result.returned) = Len(result.rows)
  /\ \A i \in 1..Len(result.rows) :
       result.returned[i] = call.df.Answer[result.rows[i]]

\* no row is taken twice
RowsDistinct ==
  \A i, j \in 1..Len(result.rows) : result.rows[i] = result.rows[j] => i = j

\* C14: with num_examples <= 0, get_examples_for_prompt returns the empty
\* list without looking at the frame and without changing it
C14_NothingRequested ==
  (Sampled /\ call.num_examples <= 0)
  => /\ result.returned = <<>>
     /\ ~result.raised
     /\ ~result.df_read
     /\ result.df = call.df

C14_Witness ==
  /\ Sampled
  /\ call.num_examples = 0
  /\ HasColumn
  /\ call.df.dtype = "int64"
  /\ MatchingRows # {}
  /\ result.returned = <<>>
  /\ result.df = call.df

\* C15: with num_examples > 0, get_examples_for_prompt returns the empty
\* list and raises nothing when the frame has no label column for the tag,
\* when that column is neither boolean nor numeric, and when no row has the
\* label set
C15_NoExamplesAvailable ==
  (/\ Sampled
   /\ call.num_examples > 0
   /\ (~HasColumn \/ call.df.dtype = "object" \/ MatchingRows = {}))
  => /\ result.returned = <<>>
     /\ ~result.raised

C15_Witness ==
  /\ Sampled
  /\ call.num_examples > 0
  /\ HasColumn
  /\ call.df.dtype = "object"
  /\ \E i \in 1..Len(call.df.values) : call.df.values[i] = "yes"
  /\ result.returned = <<>>
  /\ ~result.raised

\* C16: for a valid tag with m >= 1 matching rows and num_examples > m,
\* get_examples_for_prompt returns exactly m items, the Answer texts of all
\* the matching rows, and raises nothing
C16_FewerThanRequested ==
  (/\ Sampled
   /\ ValidTag
   /\ Cardinality(MatchingRows) >= 1
   /\ call.num_examples > Cardinality(MatchingRows))
  => /\ Len(result.returned) = Cardinality(MatchingRows)
     /\ {result.rows[i] : i \in 1..Len(result.rows)} = MatchingRows
     /\ ReturnsAnswersOfRows
     /\ ~result.raised

C16_Witness ==
  /\ Sampled
  /\ ValidTag
  /\ Len(call.df.values) = 2
  /\ MatchingRows = {2}
  /\ call.num_examples = 2
  /\ result.returned = <<call.df.Answer[2]>>
  /\ call.df.Answer[1] # call.df.Answer[2]

\* C17: for a valid tag with m matching rows and 0 < num_examples <= m,
\* get_examples_for_prompt returns exactly num_examples items, each the
\* Answer text of a matching row, and takes no row twice
C17_SampleWithoutReplacement ==
  (/\ Sampled
   /\ ValidTag
   /\ call.num_examples > 0
   /\ call.num_examples <= Cardinality(MatchingRows))
  => /\ Len(result.returned) = call.num_examples
     /\ \A i \in 1..Len(result.rows) : result.rows[i] \in MatchingRows
     /\ RowsDistinct
     /\ ReturnsAnswersOfRows
     /\ ~result.raised

C17_Witness ==
  /\ Sampled
  /\ ValidTag
  /\ MatchingRows = {1, 2}
  /\ call.num_examples = 2
  /\ result.rows = <<2, 1>>
  /\ Len(result.returned) = 2

\* C18: the tag is resolved without regard to case: written with any other
\* capitals, the same call can take exactly the same rows, and every row
\* taken is a matching row of the column named by the tag in lower case
C18_TagCaseInsensitive ==
  Sampled
  => /\ \A tag \in Tags :
          IsRecapitalisation(tag, call.target_emotion)
          => {o.rows : o \in get_examples_for_prompt(call.df, tag,
                                                      call.num_examples)}
             = {o.rows : o \in get_examples_for_prompt(call.df,
                                   call.target_emotion, call.num_examples)}
     /\ \A i \in 1..Len(result.rows) : result.rows[i] \in MatchingRows
     /\ result.rows # <<>>
        => /\ Len(call.df.column) = Len(call.target_emotion) + 2
           /\ \A i \in 1..Len(call.target_emotion) :
                /\ SameLetter(call.df.column[i + 1], call.target_emotion[i])
                /\ call.df.column[i + 1] \in {"a", "b"}

C18_Witness ==
  /\ Sampled
  /\ call.target_emotion = <<"A", "b">>
  /\ call.df.column = <<"Answer.f1.", "a", "b", ".raw">>
  /\ Len(result.returned) = 2

\* C19: no call of get_examples_for_prompt changes a cell or a dtype of the
\* frame it is given
C19_SourceUnchanged ==
  Sampled => result.df = call.df

(************************** the prompt: C20 *********************************)
\* _construct_prompt_text has returned
Composed == call.op = "construct_prompt_text"

\* the positions of the prompt where an example label starts
LabelPositions ==
  {p \in 1..Len(result.returned) : result.returned[p] = ExampleLabel}

\* the position of the j-th label
NthLabel(j) ==
  CHOOSE p \in LabelPositions :
    Cardinality({q \in LabelPositions : q <= p}) = j

\* the prompt from the j-th label up to the next label or the closing
\* instruction
LabelledExample(j) ==
  SubSeq(result.returned, NthLabel(j),
         (IF j < Cardinality(LabelPositions)
          THEN NthLabel(j + 1) ELSE Len(result.returned)) - 1)

\* s has no run of three double or three single quotes
NoTripleQuote(s) ==
  \A i \in 1..(Len(s) - 2) :
    ~(s[i] \in {"\"", "'"} /\ s[i + 1] = s[i] /\ s[i + 2] = s[i])

\* the number written by the digits ds
RECURSIVE ValueOf(_)
ValueOf(ds) ==
  IF ds = <<>> THEN 0
  ELSE 10 * ValueOf(SubSeq(ds, 1, Len(ds) - 1))
       + (CHOOSE d \in 0..9 : Digits[d + 1] = ds[Len(ds)])

\* C20: a prompt composed with k >= 1 examples has the labels Example 1 ..
\* Example k, in this order, each followed by its example in quotes, and
\* ends with the closing instruction that refers to the examples; composed
\* with no examples (an empty list or None) it has no label and ends with the
\* direct closing instruction.  Every prompt starts by naming the tone, then
\* states the approximate word count, then gives the body-only instruction.
C20_PromptLayout ==
  Composed
  => LET prompt == result.returned
         examples == call.example_entries
         k == Len(examples)
         tag == call.target_emotion
         n == Len(tag)
         wl == CHOOSE p \in 1..Len(prompt) : prompt[p] = WordsLong
     IN  /\ Cardinality(LabelPositions) = k
         /\ \A j \in 1..k :
              LET seg == LabelledExample(j)
              IN  /\ Len(seg) >= 5
                  /\ SubSeq(seg, 1, 3) = <<ExampleLabel, Digits[j + 1], ": \"">>
                  /\ SubSeq(seg, Len(seg) - 1, Len(seg)) = <<"\"", " ">>
                  /\ NoTripleQuote(examples[j])
                     => SubSeq(seg, 4, Len(seg) - 2) = examples[j]
         /\ prompt[Len(prompt)]
            = (IF k >= 1 THEN ClosingWithExamples ELSE ClosingDirect)
         /\ k >= 1 => \E p \in 1..Len(prompt) :
                         prompt[p] = ExamplesHeader /\ p < NthLabel(1)
         /\ prompt[1] = ToneInstruction
         /\ SubSeq(prompt, 2, n + 1) = tag
         /\ SubSeq(prompt, n + 2, n + 4) = <<".", " ", LengthInstruction>>
         /\ \E p \in 1..Len(prompt) : prompt[p] = WordsLong
         /\ ValueOf(SubSeq(prompt, n + 5, wl - 1)) = call.avg_word_count
         /\ SubSeq(prompt, wl + 1, wl + 3) = <<" ", BodyOnlyInstruction, " ">>

C20_Witness ==
  /\ Composed
  /\ Len(call.example_entries) = 2
  /\ call.example_entries[1] = <<"'">>
  /\ call.example_entries[2] = <<"x">>
  /\ call.avg_word_count = 100
  /\ NthLabel(1) < NthLabel(2)
  /\ LabelledExample(2) = <<ExampleLabel, "2", ": \"", "x", "\"", " ">>

\* a prompt composed with example_entries None
C20_WitnessAbsent ==
  /\ Composed
  /\ call.example_entries_is_none
  /\ LabelPositions = {}
  /\ result.returned[Len(result.returned)] = ClosingDirect

(********************** quotes in the examples: C21 *************************)
\* the text placed between the quotes after the j-th label
EmbeddedExample(j) ==
  SubSeq(LabelledExample(j), 4, Len(LabelledExample(j)) - 2)

\* C21: the text of every example, as it stands in the prompt, has no run of
\* three double quotes and no run of three single quotes
C21_NoTripleQuoteEmbedded ==
  Composed
  => \A j \in 1..Len(call.example_entries) : NoTripleQuote(EmbeddedExample(j))

(************************ the exporter: C25 .. C27, C30 *********************)
\* the step is a call of save_entry
SaveStep == call'.op = "save_entry"

\* the counter kept in an intact state file
PersistedCounter(on_disk) == on_disk.counter_file.global_counter

HasPersistedCounter(on_disk) == on_disk.counter_file.state = "ok"

\* C25: save_entry with an empty text returns None, attempts no write, and
\* leaves the exporter's counter, the state file and the files of the output
\* directory as they were
C25_EmptyEntryNotSaved ==
  [][(SaveStep /\ call'.entry_text = <<>>)
     => /\ result'.is_none
        /\ ~result'.raised
        /\ result'.write_attempts = 0
        /\ exporter' = exporter
        /\ disk' = disk]_vars

C25_Witness ==
  /\ call.op = "save_entry"
  /\ call.entry_text = <<>>
  /\ result.is_none
  /\ exporter.global_counter = 2
  /\ HasPersistedCounter(disk)
  /\ PersistedCounter(disk) = 2
  /\ Cardinality(disk.files) = 2

\* C26: every successful save_entry returns a path that no earlier
\* successful save_entry returned, also after failed writes, after a state
\* file that could not be written, and with a newly constructed exporter
C26_SavedPathsUnique ==
  [][(SaveStep /\ ~result'.is_none) => result'.returned \notin saved]_vars

\* C27: when writing the entry file fails, save_entry returns None and
\* raises nothing, the write was attempted exactly once, and the counter was
\* incremented for the attempt
C27_WriteFailure ==
  [][(SaveStep /\ call'.entry_text # <<>> /\ call'.write # "ok")
     => /\ result'.is_none
        /\ ~result'.raised
        /\ result'.write_attempts = 1
        /\ exporter'.global_counter = exporter.global_counter + 1
        /\ disk'.counter_file = disk.counter_file]_vars

C27_Witness ==
  /\ call.op = "save_entry"
  /\ call.entry_text # <<>>
  /\ call.write = "open fails"
  /\ result.is_none
  /\ result.write_attempts = 1
  /\ exporter.global_counter = 2
  /\ disk.files = {}

\* what C30 says of one step: a save_entry with a text adds exactly 1 to
\* the counter in memory; the state file changes only in a save_entry whose
\* write succeeded, and a counter written to it is the counter in memory; a
\* newly constructed exporter starts from the counter of the state file, or
\* from 0 when the file is missing or cannot be read or parsed
CounterSteps ==
  /\ (SaveStep /\ call'.entry_text # <<>>)
     => exporter'.global_counter = exporter.global_counter + 1
  /\ disk'.counter_file # disk.counter_file
     => /\ SaveStep /\ call'.write = "ok" /\ ~result'.is_none
        /\ HasPersistedCounter(disk')
           => PersistedCounter(disk') = exporter'.global_counter
  /\ (call'.op = "JournalExporter" /\ exporter'.alive)
     => exporter'.global_counter
        = (IF HasPersistedCounter(disk) /\ call'.read_ok
           THEN PersistedCounter(disk) ELSE 0)

\* the counter in memory is not less than the counter of the state file
NotBehindPersisted(self, on_disk) ==
  (self.alive /\ HasPersistedCounter(on_disk))
  => self.global_counter >= PersistedCounter(on_disk)

C29_TruncationAlwaysCuts ==
  (Generated /\ result.truncate_calls # <<>>)
  => LET truncation == result.truncate_calls[1]
         target == call.avg_word_count
     IN  /\ 2 * RunCount(truncation.text) > 3 * target
         /\ Len(word_tokenize(truncation.text)) >= RunCount(truncation.text)
         /\ Len(word_tokenize(truncation.text))
              > target + (target * 10) \div 100
         /\ truncation.returned # truncation.text
         /\ result.returned = truncation.returned
         /\ RunCount(result.returned) = target
         /\ target = 0 => result.returned = <<>>

C29_Witness ==
  /\ Generated
  /\ result.truncate_calls # <<>>
  /\ call.avg_word_count = 10
  /\ RunCount(RawText) = 16
  /\ Len(word_tokenize(RawText)) = 32
  /\ RunCount(result.returned) = 10


(******************************** the batch *********************************)
\* main has left its loops, or has ended before them
MainEnded == main.pc \in {"done", "returned early", "raised"}

\* main is inside generate_entry, or has just got its result
InGenerateEntry == main.pc \in {"invoke", "adherence", "truncate", "returned"}

ExamplesEnabled == main.num_examples_prompt > 0 /\ main.journal_df_loaded

\* an entry's examples are fetched for that entry, once, before its
\* generate_entry call, which receives them
FetchedForThisEntry ==
  (InGenerateEntry /\ ExamplesEnabled)
    => /\ main.sampled_for = main.entries_begun
       /\ main.sampler_calls = main.generate_calls
       /\ main.prompt_examples = main.example_entries_for_prompt

LoadedOnce ==
  /\ main.load_calls <= 1
  /\ (main.pc # "load data" /\ main.num_examples_prompt > 0)
       => main.load_calls = 1

BatchSize == Max(main.num_days, 0) * Max(main.entries_per_day, 0)

MainStoreStep == main'.save_calls # main.save_calls

StepsAfter(pc) ==
  CASE pc = "loop" -> {"loop", "fetch examples", "done"}
    [] pc = "fetch examples" -> {"compose"}
    [] pc = "compose" -> {"invoke"}
    [] pc = "invoke" -> {"adherence", "returned"}
    [] pc = "adherence" -> {"truncate", "returned"}
    [] pc = "truncate" -> {"returned"}
    [] pc = "returned" -> {"loop"}
    [] OTHER -> {}

\* the entries whose store attempt or skip is over
EntriesFinished ==
  IF main.pc \in {"load data", "init modules", "loop", "done",
                  "returned early", "raised"}
  THEN main.entries_begun
  ELSE main.entries_begun - 1

\* the text needs truncation: it is outside the band and above the target
NeedsTruncation(generated_text_raw) ==
  adhere(generated_text_raw, MainAvgWordCount).truncate_calls # <<>>

\* C28: the steps of an entry follow one another in the order sample,
\* compose, invoke, adherence check, truncation if and only if it is needed,
\* store or skip; an entry begins only when all entries before it are
\* finished; save_entry is called only with the non-empty text that the
\* generate_entry call of the same entry returned
C28_StepsInOrder ==
  [][/\ main.pc \in {"loop", "fetch examples", "compose", "invoke",
                     "adherence", "truncate", "returned"}
          => main'.pc \in StepsAfter(main.pc)
     /\ main'.pc = "fetch examples"
          => /\ main.pc = "loop"
             /\ EntriesFinished = main.entries_begun
             /\ main'.entries_begun = main.entries_begun + 1
     /\ main'.pc = "compose"
          => main'.sampler_calls =
               IF ExamplesEnabled' THEN main'.entries_begun ELSE 0
     /\ main'.pc = "invoke" => main'.generate_calls = main'.entries_begun
     /\ main'.pc = "truncate" => NeedsTruncation(main.generated_text_raw)
     /\ (main.pc = "adherence" /\ main'.pc = "returned")
          => ~NeedsTruncation(main.generated_text_raw)
     /\ MainStoreStep
          => /\ main.pc = "returned"
             /\ main.generated_text # <<>>
             /\ main.generate_calls = main.entries_begun
             /\ EntriesFinished' = main.entries_begun]_vars

\* the second entry begins after the first was fetched, generated, truncated
\* and stored
C28_Witness ==
  /\ main.pc = "fetch examples"
  /\ main.entries_begun = 2
  /\ main.sampler_calls = 1
  /\ main.generate_calls = 1
  /\ NeedsTruncation(main.generated_text_raw)
  /\ main.generated_text # <<>>
  /\ main.save_calls = 1
  /\ main.total_entries_generated = 1

=============================================================================
